---- MODULE Spec2Model ----
(***************************************************************************)
(* Expression trees of czirkoszoltan/cpp-training (block 2b):              *)
(* asset/2b-expr-shared.cpp, the std::shared_ptr tree with evaluate, print *)
(* and derivative.  Nodes live in the cells of a heap; a std::shared_ptr   *)
(* is the address of its node (0 is nullptr) and the use count of a node   *)
(* is kept next to it; a cell whose use count is 0 is free storage.        *)
(* doubles are modelled by the small integers the model draws, for which   *)
(* double arithmetic is exact.                                             *)
(***************************************************************************)
EXTENDS Integers, Sequences, FiniteSets

VARIABLES heap, rc, ext, last, crashed, thr, snap, uq, vec, bank, atom

vars == <<heap, rc, ext, last, crashed, thr, snap, uq, vec, bank, atom>>

\* ---- bounds ------------------------------------------------------------
\* constants a caller passes to Constant(double)
Consts == {4, 5}
\* sample points a caller passes to evaluate(double)
Xs == {0, 10}
\* number of nodes callers may create with the constructors
MaxBuild == 3
\* number of nodes the heap may hold (constructors and derivative together)
MaxNodes == 12
\* number of shared_ptr objects held outside the tree at any time
MaxExt == 2
\* number of threads that call into one tree at the same time
NThreads == 2
\* number of nodes of a tree handed over ready built
MaxTerm == 5
\* number of smart pointers a caller of both implementations holds
MaxHandles == (MaxTerm + 1) \div 2

NULL == 0

\* ---- memory: nodes and use counts -----------------------------------------
Addr == 1..MaxNodes

FreeCell == [kind |-> "free", c |-> 0, left |-> NULL, right |-> NULL]

\* the memory as the operators below transform it; arena is the set of cells
\* the allocator serves the caller from
Mem == [heap |-> heap, rc |-> rc, arena |-> DOMAIN heap]

Live(m) == {a \in DOMAIN m.heap : m.rc[a] > 0}

\* copying the address without taking a share in the node
CopyPtr_raw(m, p) == m

\* std::shared_ptr copy constructor: one more owner of p's node
CopyPtr(m, p) ==
    IF p = NULL THEN m
    ELSE [m EXCEPT !.rc[p] = @ + 1]

\* a destructor that deletes the node without destroying its members
Release1_leak(m, p) ==
    IF p = NULL THEN [m |-> m, kids |-> <<>>]
    ELSE IF m.rc[p] > 1 THEN [m |-> [m EXCEPT !.rc[p] = @ - 1], kids |-> <<>>]
    ELSE [m |-> [m EXCEPT !.rc[p] = 0, !.heap[p] = FreeCell], kids |-> <<>>]

\* std::shared_ptr destructor, one pointer: one owner fewer (an atomic
\* decrement); the last owner deletes the node, the cell goes back to the
\* allocator and the node's members right and left are to be destroyed next
Release1(m, p) ==
    IF p = NULL THEN [m |-> m, kids |-> <<>>]
    ELSE IF m.rc[p] > 1 THEN [m |-> [m EXCEPT !.rc[p] = @ - 1], kids |-> <<>>]
    ELSE [m |-> [m EXCEPT !.rc[p] = 0, !.heap[p] = FreeCell],
          kids |-> <<m.heap[p].right, m.heap[p].left>>]

RECURSIVE ReleaseAll(_, _)
\* the destructors of the pointers ps, each followed by those it entails
ReleaseAll(m, ps) ==
    IF ps = <<>> THEN m
    ELSE LET r == Release1(m, Head(ps))
         IN  ReleaseAll(r.m, r.kids \o Tail(ps))

\* a shared_ptr that is never destroyed
Release_none(m, p) == m

\* std::shared_ptr destructor run to the end by one thread
Release(m, p) == ReleaseAll(m, <<p>>)

\* allocation of a node by std::make_shared in the lowest free cell of the
\* arena: the returned pointer owns it
Alloc(m, node) ==
    LET a == CHOOSE a \in m.arena :
                 /\ m.rc[a] = 0
                 /\ \A b \in m.arena : b < a => m.rc[b] > 0
    IN  [m |-> [m EXCEPT !.heap[a] = node, !.rc[a] = 1], p |-> a]

\* Constant::Constant(double c) : c(c)
make_shared_Constant(m, c) ==
    Alloc(m, [kind |-> "Constant", c |-> c, left |-> NULL, right |-> NULL])

\* Variable::Variable()
make_shared_Variable(m) ==
    Alloc(m, [kind |-> "Variable", c |-> 0, left |-> NULL, right |-> NULL])

\* TwoOp::TwoOp keeping the addresses without taking a share in the nodes
TwoOp_ctor_unowned(m, left, right) == m

\* TwoOp::TwoOp(shared_ptr left, shared_ptr right) : left(left), right(right)
\* the members are copies of the by-value parameters
TwoOp_ctor(m, left, right) ==
    CopyPtr(CopyPtr(m, left), right)

\* a binary node constructed with itself for its left child
Construct_selfref(m, kind, left, right) ==
    LET a == Alloc(TwoOp_ctor(m, left, right),
                   [kind |-> kind, c |-> 0, left |-> left, right |-> right])
    IN  [m |-> [a.m EXCEPT !.heap[a.p].left = a.p], p |-> a.p]

\* the object std::make_shared<Sum|Product>(left, right) constructs
Construct(m, kind, left, right) ==
    Alloc(TwoOp_ctor(m, left, right),
          [kind |-> kind, c |-> 0, left |-> left, right |-> right])

\* std::make_shared<Sum|Product>(left, right): left and right are the
\* by-value parameter objects, destroyed when the constructor returns
make_shared_TwoOp(m, kind, left, right) ==
    LET a == Construct(m, kind, left, right)
    IN  [m |-> Release(Release(a.m, right), left), p |-> a.p]

\* ---- evaluate ------------------------------------------------------------
\* Sum::calc with the operator of Product
Sum_calc_times(a, b) == a * b

\* Sum::calc
Sum_calc(a, b) == a + b

\* Product::calc
Product_calc(a, b) == a + b

\* Constant::evaluate returning its argument, as Variable::evaluate does
Constant_evaluate_arg(node, x) == x

\* Constant::evaluate
Constant_evaluate(node, x) == node.c

\* Variable::evaluate
Variable_evaluate(node, x) == x

RECURSIVE evaluate(_, _, _)
\* TwoOp::evaluate: calc(left->evaluate(x), right->evaluate(x))
TwoOp_evaluate(h, node, x) ==
    LET a == evaluate(h, node.left, x)
        b == evaluate(h, node.right, x)
    IN  IF node.kind = "Sum" THEN Sum_calc(a, b) ELSE Product_calc(a, b)

\* virtual dispatch of Expression::evaluate on the node p points to
evaluate(h, p, x) ==
    CASE h[p].kind = "Constant" -> Constant_evaluate(h[p], x)
      [] h[p].kind = "Variable" -> Variable_evaluate(h[p], x)
      [] OTHER                  -> TwoOp_evaluate(h, h[p], x)

\* ---- print ---------------------------------------------------------------
Digit(d) == CASE d = 0 -> "0" [] d = 1 -> "1" [] d = 2 -> "2" [] d = 3 -> "3"
              [] d = 4 -> "4" [] d = 5 -> "5" [] d = 6 -> "6" [] d = 7 -> "7"
              [] d = 8 -> "8" [] OTHER -> "9"

RECURSIVE Numeral(_)
\* operator<<(ostream, double) for a whole number 0 <= c < 10^6: its decimal
\* digits, most significant first
Numeral(c) ==
    IF c < 10 THEN <<Digit(c)>>
    ELSE Append(Numeral(c \div 10), Digit(c % 10))

RECURSIVE Pow10(_)
Pow10(k) == IF k = 0 THEN 1 ELSE 10 * Pow10(k - 1)

RECURSIVE Exponent10(_)
\* the decimal exponent of a whole number c >= 1
Exponent10(c) == IF c < 10 THEN 0 ELSE 1 + Exponent10(c \div 10)

RECURSIVE StripZeros(_)
StripZeros(ds) ==
    IF Len(ds) > 1 /\ ds[Len(ds)] = "0" THEN StripZeros(SubSeq(ds, 1, Len(ds) - 1))
    ELSE ds

\* operator<<(ostream, double) for a whole number c >= 10^6, in the stream's
\* default format (%g, precision 6): six significant digits, rounded to
\* nearest, ties to even, trailing zeros dropped, then e+ and the exponent in
\* at least two digits
Scientific(c) ==
    LET e0   == Exponent10(c)
        unit == Pow10(e0 - 5)
        q0   == c \div unit
        r    == c % unit
        up   == 2 * r > unit \/ (2 * r = unit /\ q0 % 2 = 1)
        q1   == IF up THEN q0 + 1 ELSE q0
        q    == IF q1 = 1000000 THEN 100000 ELSE q1
        e    == IF q1 = 1000000 THEN e0 + 1 ELSE e0
        ds   == StripZeros(Numeral(q))
    IN  <<ds[1]>> \o (IF Len(ds) > 1 THEN <<".">> \o SubSeq(ds, 2, Len(ds)) ELSE <<>>)
        \o <<"e", "+">> \o (IF e < 10 THEN <<"0">> ELSE <<>>) \o Numeral(e)

\* operator<<(ostream, double) for a whole number c >= 0
ostream_double(c) == IF c < 1000000 THEN Numeral(c) ELSE Scientific(c)

\* Constant::print
Constant_print(node) == ostream_double(node.c)

\* Variable::print
Variable_print(node) == <<"x">>

\* Sum::op
Sum_op == "+"

\* Product::op
Product_op == "*"

RECURSIVE print(_, _)
\* TwoOp::print writing the parentheses for Sum only, as Product::print of the
\* lesson's first version does
TwoOp_print_bare(h, node) ==
    IF node.kind = "Sum"
    THEN <<"(">> \o print(h, node.left) \o <<Sum_op>>
                 \o print(h, node.right) \o <<")">>
    ELSE print(h, node.left) \o <<Product_op>> \o print(h, node.right)

\* TwoOp::print writing no parentheses at all
TwoOp_print_flat(h, node) ==
    print(h, node.left)
        \o <<IF node.kind = "Sum" THEN Sum_op ELSE Product_op>>
        \o print(h, node.right)

\* TwoOp::print that does not close the parenthesis
TwoOp_print_open(h, node) ==
    <<"(">> \o print(h, node.left)
            \o <<IF node.kind = "Sum" THEN Sum_op ELSE Product_op>>
            \o print(h, node.right)

\* TwoOp::print
TwoOp_print(h, node) ==
    <<"(">> \o print(h, node.left)
            \o <<IF node.kind = "Sum" THEN Sum_op ELSE Product_op>>
            \o print(h, node.right) \o <<")">>

\* virtual dispatch of Expression::print on the node p points to
print(h, p) ==
    CASE h[p].kind = "Constant" -> Constant_print(h[p])
      [] h[p].kind = "Variable" -> Variable_print(h[p])
      [] OTHER                  -> TwoOp_print(h, h[p])

\* ---- derivative ----------------------------------------------------------
\* Each derivative operator returns the memory after the call and the returned
\* pointer.  The arguments of a call are evaluated left to right; the other
\* orders a build may choose give the new nodes other free cells and nothing
\* else.

\* Constant::derivative zeroing the node itself and returning a share in it
Constant_derivative_inplace(m, p) ==
    [m |-> CopyPtr([m EXCEPT !.heap[p].c = 0], p), p |-> p]

\* Constant::derivative returning nullptr: nothing to differentiate
Constant_derivative_null(m, p) == [m |-> m, p |-> NULL]

\* Constant::derivative
Constant_derivative(m, p) == make_shared_Constant(m, 0)

\* Variable::derivative turning the node itself into the constant 1 and
\* returning a share in it
Variable_derivative_inplace(m, p) ==
    [m |-> CopyPtr([m EXCEPT !.heap[p].kind = "Constant", !.heap[p].c = 1], p),
     p |-> p]

\* Variable::derivative returning what Constant::derivative returns
Variable_derivative_zero(m, p) == make_shared_Constant(m, 0)

\* Variable::derivative
Variable_derivative(m, p) == make_shared_Constant(m, 1)

RECURSIVE derivative(_, _)
\* Sum::derivative with the two arguments of make_shared<Sum> exchanged
Sum_derivative_swapped(m, p) ==
    LET dl == derivative(m, m.heap[p].left)
        dr == derivative(dl.m, m.heap[p].right)
    IN  make_shared_TwoOp(dr.m, "Sum", dr.p, dl.p)

\* Sum::derivative folding the sum of two constants into one Constant
Sum_derivative_folded(m, p) ==
    LET dl == derivative(m, m.heap[p].left)
        dr == derivative(dl.m, m.heap[p].right)
    IN  IF dr.m.heap[dl.p].kind = "Constant" /\ dr.m.heap[dr.p].kind = "Constant"
        THEN LET c == make_shared_Constant(dr.m, dr.m.heap[dl.p].c + dr.m.heap[dr.p].c)
             IN  [m |-> Release(Release(c.m, dr.p), dl.p), p |-> c.p]
        ELSE make_shared_TwoOp(dr.m, "Sum", dl.p, dr.p)

\* Sum::derivative
Sum_derivative(m, p) ==
    LET dl == derivative(m, m.heap[p].left)
        dr == derivative(dl.m, m.heap[p].right)
    IN  make_shared_TwoOp(dr.m, "Sum", dl.p, dr.p)

\* Product::derivative in the order of the lesson's table, a'b + ab'
Product_derivative_table(m, p) ==
    LET left  == m.heap[p].left
        right == m.heap[p].right
        dl == derivative(m, left)
        p1 == make_shared_TwoOp(CopyPtr(dl.m, right), "Product", dl.p, right)
        dr == derivative(p1.m, right)
        p2 == make_shared_TwoOp(CopyPtr(dr.m, left), "Product", left, dr.p)
    IN  make_shared_TwoOp(p2.m, "Sum", p1.p, p2.p)

\* Product::derivative taking the right operand where the left one belongs
Product_derivative_right(m, p) ==
    LET left  == m.heap[p].left
        right == m.heap[p].right
        dr == derivative(m, right)
        p1 == make_shared_TwoOp(CopyPtr(dr.m, right), "Product", right, dr.p)
        dl == derivative(p1.m, left)
        p2 == make_shared_TwoOp(CopyPtr(dl.m, right), "Product", dl.p, right)
    IN  make_shared_TwoOp(p2.m, "Sum", p1.p, p2.p)

\* Product::derivative: the parameters of the inner make_shared calls are a
\* copy of the member left (right) and the pointer derivative() returned
Product_derivative(m, p) ==
    LET left  == m.heap[p].left
        right == m.heap[p].right
        dr == derivative(m, right)
        p1 == make_shared_TwoOp(CopyPtr(dr.m, left), "Product", left, dr.p)
        dl == derivative(p1.m, left)
        p2 == make_shared_TwoOp(CopyPtr(dl.m, right), "Product", dl.p, right)
    IN  make_shared_TwoOp(p2.m, "Sum", p1.p, p2.p)

\* virtual dispatch of Expression::derivative on the node p points to
derivative(m, p) ==
    CASE m.heap[p].kind = "Constant" -> Constant_derivative(m, p)
      [] m.heap[p].kind = "Variable" -> Variable_derivative(m, p)
      [] m.heap[p].kind = "Sum"      -> Sum_derivative(m, p)
      [] OTHER                       -> Product_derivative(m, p)

\* ---- well-formedness and sizes -------------------------------------------
IsTwoOp(node) == node.kind \in {"Sum", "Product"}

RECURSIVE WellFormed(_, _)
\* no null child is met when the tree under p is walked
WellFormed(h, p) ==
    /\ p # NULL
    /\ IsTwoOp(h[p]) => WellFormed(h, h[p].left) /\ WellFormed(h, h[p].right)

RECURSIVE NewNodes(_, _)
\* number of nodes one derivative() call on p allocates
NewNodes(h, p) ==
    CASE ~IsTwoOp(h[p])       -> 1
      [] h[p].kind = "Sum"    -> 1 + NewNodes(h, h[p].left) + NewNodes(h, h[p].right)
      [] OTHER                -> 3 + NewNodes(h, h[p].left) + NewNodes(h, h[p].right)

\* ---- asset/2b-expr-unique.cpp: the std::unique_ptr tree -----------------------
\* The same classes with std::unique_ptr members and no derivative().  A
\* unique_ptr is the address of its node, a deleted node is a free cell.
\* The memory u has the nodes (heap) and the nodes destroyed by the running
\* destructor call, in the order their destructors were entered (order).

\* what std::move leaves in its argument when the address is copied and the
\* source is not reset
unique_moved_from_alias(p) == p

\* what is left in a unique_ptr when another one is move-constructed from it
unique_moved_from(p) == NULL

\* ~unique_ptr, one pointer: deletes the node it owns; the node's destructor
\* is entered and its members right and left are to be destroyed next
unique_Delete1(u, p) ==
    IF p = NULL THEN [u |-> u, kids |-> <<>>]
    ELSE [u |-> [u EXCEPT !.heap[p] = FreeCell, !.order = Append(@, p)],
          kids |-> <<u.heap[p].right, u.heap[p].left>>]

RECURSIVE unique_DeleteAll(_, _)
\* the destructors of the pointers ps, each followed by those it entails
unique_DeleteAll(u, ps) ==
    IF ps = <<>> THEN u
    ELSE LET r == unique_Delete1(u, Head(ps))
         IN  unique_DeleteAll(r.u, r.kids \o Tail(ps))

\* ~unique_ptr
unique_Delete(u, p) == unique_DeleteAll(u, <<p>>)

\* allocation of a node by std::make_unique in the lowest free cell
unique_Alloc(u, node) ==
    LET free == {a \in DOMAIN u.heap : u.heap[a].kind = "free"}
        a == CHOOSE a \in free : \A b \in free : a <= b
    IN  [u |-> [u EXCEPT !.heap[a] = node], p |-> a]

\* Constant::Constant(double c) : c(c)
make_unique_Constant(u, c) ==
    unique_Alloc(u, [kind |-> "Constant", c |-> c, left |-> NULL, right |-> NULL])

\* Variable::Variable()
make_unique_Variable(u) ==
    unique_Alloc(u, [kind |-> "Variable", c |-> 0, left |-> NULL, right |-> NULL])

\* std::make_unique<Sum|Product>(left, right): TwoOp::TwoOp moves its by-value
\* parameters into the members; the parameters, then holding what the move
\* left in them, are destroyed when the constructor returns
make_unique_TwoOp(u, kind, left, right) ==
    LET a == unique_Alloc(u, [kind |-> kind, c |-> 0,
                              left |-> left, right |-> right])
    IN  [u |-> unique_Delete(unique_Delete(a.u, unique_moved_from(right)),
                             unique_moved_from(left)),
         p |-> a.p]

\* Sum::calc
unique_Sum_calc(a, b) == a + b

\* Product::calc with the operator its name promises
unique_Product_calc_times(a, b) == a * b

\* Product::calc
unique_Product_calc(a, b) == a + b

\* Constant::evaluate
unique_Constant_evaluate(node, x) == node.c

\* Variable::evaluate
unique_Variable_evaluate(node, x) == x

RECURSIVE unique_evaluate(_, _, _)
\* TwoOp::evaluate
unique_TwoOp_evaluate(h, node, x) ==
    LET a == unique_evaluate(h, node.left, x)
        b == unique_evaluate(h, node.right, x)
    IN  IF node.kind = "Sum" THEN unique_Sum_calc(a, b)
        ELSE unique_Product_calc(a, b)

\* virtual dispatch of Expression::evaluate
unique_evaluate(h, p, x) ==
    CASE h[p].kind = "Constant" -> unique_Constant_evaluate(h[p], x)
      [] h[p].kind = "Variable" -> unique_Variable_evaluate(h[p], x)
      [] OTHER                  -> unique_TwoOp_evaluate(h, h[p], x)

\* Constant::print
unique_Constant_print(node) == ostream_double(node.c)

\* Variable::print
unique_Variable_print(node) == <<"x">>

\* Sum::op
unique_Sum_op == "+"

\* Product::op
unique_Product_op == "*"

RECURSIVE unique_print(_, _)
\* TwoOp::print
unique_TwoOp_print(h, node) ==
    <<"(">> \o unique_print(h, node.left)
            \o <<IF node.kind = "Sum" THEN unique_Sum_op ELSE unique_Product_op>>
            \o unique_print(h, node.right) \o <<")">>

\* virtual dispatch of Expression::print, which operator<< calls
unique_print(h, p) ==
    CASE h[p].kind = "Constant" -> unique_Constant_print(h[p])
      [] h[p].kind = "Variable" -> unique_Variable_print(h[p])
      [] OTHER                  -> unique_TwoOp_print(h, h[p])

\* the call a caller of the unique_ptr tree made last
NoUniqueCall == [op |-> "none", arg |-> NULL, x |-> 0, val |-> 0, out |-> <<>>]

\* the unique_ptr program where it is not run: no memory, no pointers
NoUnique == [heap |-> <<>>, order |-> <<>>, hs |-> <<>>, last |-> NoUniqueCall]

\* ---- the other lessons' objects, while the expression programs run ----------
\* no Vector constructed
NoVector == [size |-> 0, capacity |-> 0, data |-> <<>>, overrun |-> FALSE,
             halted |-> FALSE]

\* no BankAccount constructed, no thread started
NoBank == [balance |-> 0, m |-> 0, th |-> <<>>, calls |-> 0,
           deposited |-> 0, returned |-> 0]

\* no std::atomic<int> constructed, no thread started
NoAtomic == [i |-> 0, th |-> <<>>, form |-> "none", start |-> 0,
             overlap |-> FALSE]

\* ---- the program: callers holding shared_ptrs in ext ------------------------
NoCall == [op |-> "none", arg |-> NULL, x |-> 0, val |-> 0, out |-> <<>>,
           res |-> NULL]

Init ==
    /\ heap = [a \in Addr |-> FreeCell]
    /\ rc = [a \in Addr |-> 0]
    /\ ext = <<>>
    /\ last = NoCall
    /\ crashed = FALSE
    /\ thr = <<>>
    /\ snap = [heap |-> <<>>, rc |-> <<>>, arena |-> {}]
    /\ uq = NoUnique
    /\ vec = NoVector
    /\ bank = NoBank
    /\ atom = NoAtomic

SetMem(m) ==
    /\ heap' = m.heap
    /\ rc' = m.rc

Built(op, r) == [NoCall EXCEPT !.op = op, !.res = r]

\* std::make_shared<Constant>(c)
PushConstant(c) ==
    /\ ~crashed
    /\ Len(ext) < MaxExt
    /\ Cardinality(Live(Mem)) < MaxBuild
    /\ LET a == make_shared_Constant(Mem, c)
       IN  /\ SetMem(a.m)
           /\ ext' = Append(ext, a.p)
           /\ last' = Built("Constant", a.p)
    /\ UNCHANGED crashed
    /\ UNCHANGED <<thr, snap, uq, vec, bank, atom>>

\* std::make_shared<Variable>()
PushVariable ==
    /\ ~crashed
    /\ Len(ext) < MaxExt
    /\ Cardinality(Live(Mem)) < MaxBuild
    /\ LET a == make_shared_Variable(Mem)
       IN  /\ SetMem(a.m)
           /\ ext' = Append(ext, a.p)
           /\ last' = Built("Variable", a.p)
    /\ UNCHANGED crashed
    /\ UNCHANGED <<thr, snap, uq, vec, bank, atom>>

\* std::make_shared<Sum|Product>(l, r): an argument is nullptr ("null"), the
\* caller's most recent pointer moved into the parameter ("move"), or a copy
\* of the pointer that the other argument moves ("copy")
MakeTwoOp(kind, la, ra) ==
    /\ ~crashed
    /\ Cardinality(Live(Mem)) < MaxBuild
    /\ ~(la = "copy" /\ ra # "move")
    /\ ~(ra = "copy" /\ la # "move")
    /\ LET k == (IF la = "move" THEN 1 ELSE 0) + (IF ra = "move" THEN 1 ELSE 0)
           n == Len(ext)
       IN  /\ n >= k
           /\ n - k < MaxExt
           /\ LET r == CASE ra = "null" -> NULL
                         [] ra = "move" -> ext[n]
                         [] OTHER       -> ext[n]
                  l == CASE la = "null" -> NULL
                         [] la = "move" -> ext[n - k + 1]
                         [] OTHER       -> ext[n]
                  m0 == IF "copy" \in {la, ra} THEN CopyPtr(Mem, ext[n]) ELSE Mem
                  a == make_shared_TwoOp(m0, kind, l, r)
              IN  /\ SetMem(a.m)
                  /\ ext' = Append(SubSeq(ext, 1, n - k), a.p)
                  /\ last' = Built(kind, a.p)
    /\ UNCHANGED crashed
    /\ UNCHANGED <<thr, snap, uq, vec, bank, atom>>

MakeSum(la, ra) == MakeTwoOp("Sum", la, ra)

MakeProduct(la, ra) == MakeTwoOp("Product", la, ra)

\* a shared_ptr held by the caller goes out of scope or is reset
Drop(i) ==
    /\ ~crashed
    /\ i \in 1..Len(ext)
    /\ SetMem(Release(Mem, ext[i]))
    /\ ext' = SubSeq(ext, 1, i - 1) \o SubSeq(ext, i + 1, Len(ext))
    /\ last' = [NoCall EXCEPT !.op = "drop"]
    /\ UNCHANGED crashed
    /\ UNCHANGED <<thr, snap, uq, vec, bank, atom>>

\* a call through a tree with a null child dereferences a null pointer:
\* undefined behaviour, here the process dies or the call returns garbage
Undefined(op, p) ==
    /\ \/ /\ crashed' = TRUE
          /\ last' = [NoCall EXCEPT !.op = "ub", !.arg = p]
       \/ /\ crashed' = FALSE
          /\ \E g \in Xs :
               last' = [NoCall EXCEPT !.op = "ub", !.arg = p, !.val = g]
    /\ UNCHANGED <<heap, rc, ext>>

\* ext[i]->evaluate(x)
Evaluate(i, x) ==
    /\ ~crashed
    /\ i \in 1..Len(ext)
    /\ ext[i] # NULL
    /\ IF WellFormed(heap, ext[i])
       THEN /\ last' = [NoCall EXCEPT !.op = "evaluate", !.arg = ext[i], !.x = x,
                                      !.val = evaluate(heap, ext[i], x)]
            /\ UNCHANGED <<heap, rc, ext, crashed>>
       ELSE Undefined("evaluate", ext[i])
    /\ UNCHANGED <<thr, snap, uq, vec, bank, atom>>

\* ext[i]->print(os)
PrintCall(i) ==
    /\ ~crashed
    /\ i \in 1..Len(ext)
    /\ ext[i] # NULL
    /\ IF WellFormed(heap, ext[i])
       THEN /\ last' = [NoCall EXCEPT !.op = "print", !.arg = ext[i],
                                      !.out = print(heap, ext[i])]
            /\ UNCHANGED <<heap, rc, ext, crashed>>
       ELSE Undefined("print", ext[i])
    /\ UNCHANGED <<thr, snap, uq, vec, bank, atom>>

\* auto ed = ext[i]->derivative()
Derivative(i) ==
    /\ ~crashed
    /\ Len(ext) < MaxExt
    /\ i \in 1..Len(ext)
    /\ ext[i] # NULL
    /\ IF WellFormed(heap, ext[i])
       THEN /\ Cardinality(Live(Mem)) + NewNodes(heap, ext[i]) <= MaxNodes
            /\ LET d == derivative(Mem, ext[i])
               IN  /\ SetMem(d.m)
                   /\ ext' = Append(ext, d.p)
                   /\ last' = [NoCall EXCEPT !.op = "derivative", !.arg = ext[i],
                                             !.res = d.p]
            /\ UNCHANGED crashed
       ELSE Undefined("derivative", ext[i])
    /\ UNCHANGED <<thr, snap, uq, vec, bank, atom>>

\* callers that keep the constructors' precondition: no null argument
Next ==
    \/ \E c \in Consts : PushConstant(c)
    \/ PushVariable
    \/ \E la \in {"move", "copy"}, ra \in {"move", "copy"} : MakeSum(la, ra)
    \/ \E la \in {"move", "copy"}, ra \in {"move", "copy"} : MakeProduct(la, ra)
    \/ \E i \in 1..MaxExt : Drop(i)
    \/ \E i \in 1..MaxExt, x \in Xs : Evaluate(i, x)
    \/ \E i \in 1..MaxExt : PrintCall(i)
    \/ \E i \in 1..MaxExt : Derivative(i)

Spec == Init /\ [][Next]_vars

\* a Sum or Product constructor called with nullptr for a child
MakeSumNull(la, ra) == "null" \in {la, ra} /\ MakeTwoOp("Sum", la, ra)

MakeProductNull(la, ra) == "null" \in {la, ra} /\ MakeTwoOp("Product", la, ra)

\* callers that may also pass nullptr
NextNull ==
    \/ Next
    \/ \E la \in {"move", "null"}, ra \in {"move", "null"} : MakeSumNull(la, ra)
    \/ \E la \in {"move", "null"}, ra \in {"move", "null"} : MakeProductNull(la, ra)

SpecNull == Init /\ [][NextNull]_vars

TypeOK ==
    /\ Len(ext) <= MaxExt
    /\ \A a \in Addr : rc[a] = 0 <=> heap[a] = FreeCell

\* ---- several threads calling into one tree ---------------------------------
\* Each thread makes one call on the root of an already built tree and, if the
\* call was derivative(), lets go of the result afterwards.  A step of a
\* thread is one access to a node or to a use count; use counts change
\* atomically, as std::shared_ptr guarantees.  Every thread allocates from an
\* arena of its own and prints to a stream of its own (print takes the stream
\* as its argument).
Threads == 1..NThreads

Root == ext[1]

Leaves == {<<"Constant", c>> : c \in Consts} \cup {<<"Variable">>}

RECURSIVE TermSize(_)
TermSize(t) == IF Len(t) = 3 THEN 1 + TermSize(t[2]) + TermSize(t[3]) ELSE 1

RECURSIVE TermsUpTo(_)
\* the expressions of at most n nodes
TermsUpTo(n) ==
    IF n < 1 THEN {}
    ELSE Leaves \cup
         {t \in {<<k, l, r>> : k \in {"Sum", "Product"},
                               l \in TermsUpTo(n - 2), r \in TermsUpTo(n - 2)} :
            TermSize(t) <= n}

RECURSIVE BuildTerm(_, _)
\* the constructor calls that build an expression, as main() nests them
BuildTerm(m, t) ==
    CASE t[1] = "Constant" -> make_shared_Constant(m, t[2])
      [] t[1] = "Variable" -> make_shared_Variable(m)
      [] OTHER -> LET l == BuildTerm(m, t[2])
                      r == BuildTerm(l.m, t[3])
                  IN  make_shared_TwoOp(r.m, t[1], l.p, r.p)

\* cells one derivative() call on a tree of MaxBuild nodes can need
ArenaSize == 2 * MaxBuild - 1

ConcAddr == 1..(MaxBuild + NThreads * ArenaSize)

\* the cells past those of the tree built at the start, in equal shares
Arena(t) ==
    LET base  == Cardinality(snap.arena)
        share == (Cardinality(DOMAIN heap) - base) \div NThreads
    IN  {a \in DOMAIN heap : /\ a > base + (t - 1) * share
                             /\ a <= base + t * share}

TMem(t) == [heap |-> heap, rc |-> rc, arena |-> Arena(t)]

Idle == [phase |-> "idle", op |-> "none", x |-> 0, stack |-> <<>>,
         ret |-> 0, out |-> <<>>, todo |-> <<>>]

InitConc ==
    \E t \in TermsUpTo(MaxBuild) :
        LET b == BuildTerm([heap  |-> [a \in ConcAddr |-> FreeCell],
                            rc    |-> [a \in ConcAddr |-> 0],
                            arena |-> 1..MaxBuild], t)
        IN  /\ heap = b.m.heap
            /\ rc = b.m.rc
            /\ ext = <<b.p>>
            /\ snap = b.m
            /\ uq = NoUnique
            /\ vec = NoVector
            /\ bank = NoBank
            /\ atom = NoAtomic
            /\ last = NoCall
            /\ crashed = FALSE
            /\ thr = [i \in Threads |-> Idle]

\* the activation record of a virtual call on the node p points to
Frame(p) == [p |-> p, pc |-> 0, a |-> NULL, b |-> NULL]

Top(th) == th.stack[Len(th.stack)]

SetTop(th, f) == [th EXCEPT !.stack[Len(th.stack)] = f]

\* call a method of the node p points to
Enter(th, p) == [th EXCEPT !.stack = Append(@, Frame(p))]

\* return v from the running method; the outermost return ends the call
Return(th, v) ==
    LET st == SubSeq(th.stack, 1, Len(th.stack) - 1)
    IN  [th EXCEPT !.stack = st, !.ret = v,
                   !.phase = IF st # <<>> THEN "run"
                             ELSE IF th.op = "derivative" THEN "held"
                             ELSE "done"]

StartCall(t, op, x) ==
    /\ ~crashed
    /\ thr[t].phase = "idle"
    /\ thr' = [thr EXCEPT ![t] = [Idle EXCEPT !.phase = "run", !.op = op,
                                              !.x = x, !.stack = <<Frame(Root)>>]]
    /\ UNCHANGED <<heap, rc, ext, last, crashed, snap, uq, vec, bank, atom>>

CallEvaluate(t, x) == StartCall(t, "evaluate", x)

CallPrint(t) == StartCall(t, "print", 0)

CallDerivative(t) == StartCall(t, "derivative", 0)

Running(t, op) ==
    /\ ~crashed
    /\ thr[t].phase = "run"
    /\ thr[t].op = op

\* the node this is dangling or null: the call is undefined
Dangling(th) == Top(th).p = NULL \/ heap[Top(th).p].kind = "free"

Crash ==
    /\ crashed' = TRUE
    /\ UNCHANGED <<heap, rc, ext, last, thr, snap, uq, vec, bank, atom>>

\* TwoOp::evaluate that never gets past its right operand
EvaluateFrame_again(th) ==
    LET f == Top(th)
        node == heap[f.p]
    IN  CASE node.kind = "Constant" -> Return(th, Constant_evaluate(node, th.x))
          [] node.kind = "Variable" -> Return(th, Variable_evaluate(node, th.x))
          [] f.pc = 0 -> Enter(SetTop(th, [f EXCEPT !.pc = 1]), node.left)
          [] OTHER -> Enter(SetTop(th, [f EXCEPT !.a = th.ret]), node.right)

\* one step of evaluate(): TwoOp::evaluate calls left, then right, then calc
EvaluateFrame(th) ==
    LET f == Top(th)
        node == heap[f.p]
    IN  CASE node.kind = "Constant" -> Return(th, Constant_evaluate(node, th.x))
          [] node.kind = "Variable" -> Return(th, Variable_evaluate(node, th.x))
          [] f.pc = 0 -> Enter(SetTop(th, [f EXCEPT !.pc = 1]), node.left)
          [] f.pc = 1 -> Enter(SetTop(th, [f EXCEPT !.pc = 2, !.a = th.ret]),
                               node.right)
          [] OTHER -> Return(th, IF node.kind = "Sum"
                                 THEN Sum_calc(f.a, th.ret)
                                 ELSE Product_calc(f.a, th.ret))

StepEvaluate(t) ==
    /\ Running(t, "evaluate")
    /\ IF Dangling(thr[t]) THEN Crash
       ELSE /\ thr' = [thr EXCEPT ![t] = EvaluateFrame(thr[t])]
            /\ UNCHANGED <<heap, rc, ext, last, crashed, snap, uq, vec, bank, atom>>

\* one step of print(): TwoOp::print writes '(', left, op(), right, ')'
PrintFrame(th) ==
    LET f == Top(th)
        node == heap[f.p]
        Put(cs) == [th EXCEPT !.out = @ \o cs]
    IN  CASE node.kind = "Constant" -> Return(Put(Constant_print(node)), 0)
          [] node.kind = "Variable" -> Return(Put(Variable_print(node)), 0)
          [] f.pc = 0 -> Enter(SetTop(Put(<<"(">>), [f EXCEPT !.pc = 1]), node.left)
          [] f.pc = 1 -> Enter(SetTop(Put(<<IF node.kind = "Sum" THEN Sum_op
                                            ELSE Product_op>>),
                                      [f EXCEPT !.pc = 2]), node.right)
          [] OTHER -> Return(Put(<<")">>), 0)

StepPrint(t) ==
    /\ Running(t, "print")
    /\ IF Dangling(thr[t]) THEN Crash
       ELSE /\ thr' = [thr EXCEPT ![t] = PrintFrame(thr[t])]
            /\ UNCHANGED <<heap, rc, ext, last, crashed, snap, uq, vec, bank, atom>>

\* one step of derivative() on a leaf or a Sum
SumDerivativeFrame(th, m) ==
    LET f == Top(th)
        node == m.heap[f.p]
    IN  CASE node.kind = "Constant" ->
                LET d == Constant_derivative(m, f.p)
                IN  [th |-> Return(th, d.p), m |-> d.m]
          [] node.kind = "Variable" ->
                LET d == Variable_derivative(m, f.p)
                IN  [th |-> Return(th, d.p), m |-> d.m]
          [] f.pc = 0 ->
                [th |-> Enter(SetTop(th, [f EXCEPT !.pc = 1]), node.left), m |-> m]
          [] f.pc = 1 ->
                [th |-> Enter(SetTop(th, [f EXCEPT !.pc = 2, !.a = th.ret]),
                              node.right), m |-> m]
          [] OTHER ->
                LET d == make_shared_TwoOp(m, "Sum", f.a, th.ret)
                IN  [th |-> Return(th, d.p), m |-> d.m]

\* one step of Product::derivative: right->derivative(); the parameter copy
\* of left; the first Product constructed; that parameter destroyed; then the
\* same for left->derivative() and right; at last the Sum
ProductDerivativeFrame(th, m) ==
    LET f == Top(th)
        node == m.heap[f.p]
        Goto(pc) == SetTop(th, [f EXCEPT !.pc = pc])
    IN  CASE f.pc = 0 -> [th |-> Enter(Goto(1), node.right), m |-> m]
          [] f.pc = 1 ->
                [th |-> SetTop(th, [f EXCEPT !.pc = 2, !.a = th.ret]),
                 m |-> CopyPtr(m, node.left)]
          [] f.pc = 2 ->
                LET c == Construct(m, "Product", node.left, f.a)
                IN  [th |-> SetTop(th, [f EXCEPT !.pc = 3, !.a = c.p]),
                     m |-> Release(c.m, f.a)]
          [] f.pc = 3 -> [th |-> Goto(4), m |-> Release(m, node.left)]
          [] f.pc = 4 -> [th |-> Enter(Goto(5), node.left), m |-> m]
          [] f.pc = 5 ->
                [th |-> SetTop(th, [f EXCEPT !.pc = 6, !.b = th.ret]),
                 m |-> CopyPtr(m, node.right)]
          [] f.pc = 6 ->
                LET c == Construct(m, "Product", f.b, node.right)
                IN  [th |-> SetTop(th, [f EXCEPT !.pc = 7, !.b = c.p]),
                     m |-> Release(c.m, f.b)]
          [] f.pc = 7 -> [th |-> Goto(8), m |-> Release(m, node.right)]
          [] OTHER ->
                LET d == make_shared_TwoOp(m, "Sum", f.a, f.b)
                IN  [th |-> Return(th, d.p), m |-> d.m]

StepDerivative(t) ==
    /\ Running(t, "derivative")
    /\ IF Dangling(thr[t]) THEN Crash
       ELSE LET r == IF heap[Top(thr[t]).p].kind = "Product"
                     THEN ProductDerivativeFrame(thr[t], TMem(t))
                     ELSE SumDerivativeFrame(thr[t], TMem(t))
            IN  /\ thr' = [thr EXCEPT ![t] = r.th]
                /\ SetMem(r.m)
                /\ UNCHANGED <<ext, last, crashed, snap, uq, vec, bank, atom>>

\* the thread's pointer to the derivative goes out of scope
StartDrop(t) ==
    /\ ~crashed
    /\ thr[t].phase = "held"
    /\ thr' = [thr EXCEPT ![t].phase = "drop", ![t].todo = <<thr[t].ret>>]
    /\ UNCHANGED <<heap, rc, ext, last, crashed, snap, uq, vec, bank, atom>>

\* one shared_ptr destructor of the teardown
StepDrop(t) ==
    /\ ~crashed
    /\ thr[t].phase = "drop"
    /\ LET r == Release1(TMem(t), Head(thr[t].todo))
           todo == r.kids \o Tail(thr[t].todo)
       IN  /\ SetMem(r.m)
           /\ thr' = [thr EXCEPT ![t].todo = todo,
                                 ![t].phase = IF todo = <<>> THEN "done" ELSE "drop"]
    /\ UNCHANGED <<ext, last, crashed, snap, uq, vec, bank, atom>>

NextConc ==
    \/ \E t \in Threads, x \in Xs : CallEvaluate(t, x)
    \/ \E t \in Threads : CallPrint(t)
    \/ \E t \in Threads : CallDerivative(t)
    \/ \E t \in Threads : StepEvaluate(t)
    \/ \E t \in Threads : StepPrint(t)
    \/ \E t \in Threads : StepDerivative(t)
    \/ \E t \in Threads : StartDrop(t)
    \/ \E t \in Threads : StepDrop(t)

SpecConc == InitConc /\ [][NextConc]_vars

\* ---- calls on a tree that is already built ---------------------------------
\* The caller holds the root of any expression of at most MaxTerm nodes, built
\* by nested constructor calls as in main(), and goes on from there.
InitTree ==
    \E t \in TermsUpTo(MaxTerm) :
        LET b == BuildTerm([heap  |-> [a \in Addr |-> FreeCell],
                            rc    |-> [a \in Addr |-> 0],
                            arena |-> Addr], t)
        IN  /\ heap = b.m.heap
            /\ rc = b.m.rc
            /\ ext = <<b.p>>
            /\ last = NoCall
            /\ crashed = FALSE
            /\ thr = <<>>
            /\ snap = [heap |-> <<>>, rc |-> <<>>, arena |-> {}]
            /\ uq = NoUnique
            /\ vec = NoVector
            /\ bank = NoBank
            /\ atom = NoAtomic

NextTree ==
    \/ \E i \in 1..MaxExt : Drop(i)
    \/ \E i \in 1..MaxExt, x \in Xs : Evaluate(i, x)
    \/ \E i \in 1..MaxExt : PrintCall(i)
    \/ \E i \in 1..MaxExt : Derivative(i)

SpecTree == InitTree /\ [][NextTree]_vars

\* ---- one caller, both implementations -------------------------------------
\* The same calls made on the shared_ptr tree (heap, rc, ext, last) and on the
\* unique_ptr tree (uq).  Arguments of the constructors are the temporaries
\* the nested make_shared / make_unique calls of main() return, the only way
\* of passing them that compiles with both.
\* nothing is built yet in either implementation; hs are the unique_ptrs the
\* caller holds
InitBoth ==
    /\ heap = [a \in Addr |-> FreeCell]
    /\ rc = [a \in Addr |-> 0]
    /\ ext = <<>>
    /\ last = NoCall
    /\ crashed = FALSE
    /\ thr = <<>>
    /\ snap = [heap |-> <<>>, rc |-> <<>>, arena |-> {}]
    /\ uq = [NoUnique EXCEPT !.heap = [a \in Addr |-> FreeCell]]
    /\ vec = NoVector
    /\ bank = NoBank
    /\ atom = NoAtomic

UniqueDone(u, hs, call) == [u EXCEPT !.hs = hs, !.last = call]

\* the unique_ptr memory when a call starts
UniqueMem == [uq EXCEPT !.order = <<>>]

BothConstant(c) ==
    /\ Len(ext) < MaxHandles
    /\ Cardinality(Live(Mem)) < MaxTerm
    /\ LET a == make_shared_Constant(Mem, c)
           b == make_unique_Constant(UniqueMem, c)
       IN  /\ SetMem(a.m)
           /\ ext' = Append(ext, a.p)
           /\ last' = Built("Constant", a.p)
           /\ uq' = UniqueDone(b.u, Append(uq.hs, b.p),
                               [NoUniqueCall EXCEPT !.op = "Constant", !.arg = b.p])
    /\ UNCHANGED <<crashed, thr, snap, vec, bank, atom>>

BothVariable ==
    /\ Len(ext) < MaxHandles
    /\ Cardinality(Live(Mem)) < MaxTerm
    /\ LET a == make_shared_Variable(Mem)
           b == make_unique_Variable(UniqueMem)
       IN  /\ SetMem(a.m)
           /\ ext' = Append(ext, a.p)
           /\ last' = Built("Variable", a.p)
           /\ uq' = UniqueDone(b.u, Append(uq.hs, b.p),
                               [NoUniqueCall EXCEPT !.op = "Variable", !.arg = b.p])
    /\ UNCHANGED <<crashed, thr, snap, vec, bank, atom>>

BothTwoOp(kind) ==
    /\ Len(ext) >= 2
    /\ Cardinality(Live(Mem)) < MaxTerm
    /\ LET n == Len(ext)
           a == make_shared_TwoOp(Mem, kind, ext[n - 1], ext[n])
           b == make_unique_TwoOp(UniqueMem, kind, uq.hs[n - 1], uq.hs[n])
       IN  /\ SetMem(a.m)
           /\ ext' = Append(SubSeq(ext, 1, n - 2), a.p)
           /\ last' = Built(kind, a.p)
           /\ uq' = UniqueDone(b.u, Append(SubSeq(uq.hs, 1, n - 2), b.p),
                               [NoUniqueCall EXCEPT !.op = kind, !.arg = b.p])
    /\ UNCHANGED <<crashed, thr, snap, vec, bank, atom>>

BothSum == BothTwoOp("Sum")

BothProduct == BothTwoOp("Product")

\* e->evaluate(x), e being the pointer built last
BothEvaluate(x) ==
    /\ ext # <<>>
    /\ LET i == Len(ext)
       IN  /\ last' = [NoCall EXCEPT !.op = "evaluate", !.arg = ext[i], !.x = x,
                                     !.val = evaluate(heap, ext[i], x)]
           /\ uq' = UniqueDone(UniqueMem, uq.hs,
                               [NoUniqueCall EXCEPT
                                   !.op = "evaluate", !.arg = uq.hs[i], !.x = x,
                                   !.val = unique_evaluate(uq.heap, uq.hs[i], x)])
    /\ UNCHANGED <<heap, rc, ext, crashed, thr, snap, vec, bank, atom>>

\* e->print(os) and os << *e, e being the pointer built last
BothPrint ==
    /\ ext # <<>>
    /\ LET i == Len(ext)
       IN  /\ last' = [NoCall EXCEPT !.op = "print", !.arg = ext[i],
                                     !.out = print(heap, ext[i])]
           /\ uq' = UniqueDone(UniqueMem, uq.hs,
                               [NoUniqueCall EXCEPT
                                   !.op = "print", !.arg = uq.hs[i],
                                   !.out = unique_print(uq.heap, uq.hs[i])])
    /\ UNCHANGED <<heap, rc, ext, crashed, thr, snap, vec, bank, atom>>

\* the caller's i-th pointer goes out of scope or is reset
BothDrop(i) ==
    /\ i \in 1..Len(ext)
    /\ SetMem(Release(Mem, ext[i]))
    /\ ext' = SubSeq(ext, 1, i - 1) \o SubSeq(ext, i + 1, Len(ext))
    /\ last' = [NoCall EXCEPT !.op = "drop"]
    /\ uq' = UniqueDone(unique_Delete(UniqueMem, uq.hs[i]),
                        SubSeq(uq.hs, 1, i - 1) \o SubSeq(uq.hs, i + 1, Len(uq.hs)),
                        [NoUniqueCall EXCEPT !.op = "drop", !.arg = uq.hs[i]])
    /\ UNCHANGED <<crashed, thr, snap, vec, bank, atom>>

NextBoth ==
    \/ \E c \in Consts : BothConstant(c)
    \/ BothVariable
    \/ BothSum
    \/ BothProduct
    \/ \E x \in Xs : BothEvaluate(x)
    \/ BothPrint
    \/ \E i \in 1..MaxHandles : BothDrop(i)

SpecBoth == InitBoth /\ [][NextBoth]_vars

\* ---- what the claims speak about -------------------------------------------
RECURSIVE Desc(_, _)
\* the nodes of the tree under p
Desc(h, p) ==
    IF p = NULL THEN {}
    ELSE {p} \cup Desc(h, h[p].left) \cup Desc(h, h[p].right)

\* the nodes a caller can reach
Reachable == UNION {Desc(heap, ext[i]) : i \in 1..Len(ext)}

NotNull(p) == p # NULL

\* every shared_ptr object there is that is not null: the callers' and the
\* nodes' members
Pointers ==
    SelectSeq(ext \o [b \in Addr |-> heap[b].left]
                  \o [b \in Addr |-> heap[b].right], NotNull)

RECURSIVE Tree(_, _)
\* the expression a well-formed tree denotes, as a term
Tree(h, p) ==
    CASE h[p].kind = "Constant" -> <<"Constant", h[p].c>>
      [] h[p].kind = "Variable" -> <<"Variable">>
      [] OTHER -> <<h[p].kind, Tree(h, h[p].left), Tree(h, h[p].right)>>

RECURSIVE ExactValue(_, _)
\* the value at x of the polynomial a term denotes
ExactValue(t, x) ==
    CASE t[1] = "Constant" -> t[2]
      [] t[1] = "Variable" -> x
      [] t[1] = "Sum"      -> ExactValue(t[2], x) + ExactValue(t[3], x)
      [] OTHER             -> ExactValue(t[2], x) * ExactValue(t[3], x)

RECURSIVE ExactSlope(_, _)
\* the derivative at x of the polynomial a term denotes
ExactSlope(t, x) ==
    CASE t[1] = "Constant" -> 0
      [] t[1] = "Variable" -> 1
      [] t[1] = "Sum"      -> ExactSlope(t[2], x) + ExactSlope(t[3], x)
      [] OTHER             -> ExactSlope(t[2], x) * ExactValue(t[3], x)
                              + ExactValue(t[2], x) * ExactSlope(t[3], x)

RECURSIVE RuleTerm(_)
\* the term the four differentiation rules give for a term
RuleTerm(t) ==
    CASE t[1] = "Constant" -> <<"Constant", 0>>
      [] t[1] = "Variable" -> <<"Constant", 1>>
      [] t[1] = "Sum"      -> <<"Sum", RuleTerm(t[2]), RuleTerm(t[3])>>
      [] OTHER             -> <<"Sum", <<"Product", t[2], RuleTerm(t[3])>>,
                                       <<"Product", RuleTerm(t[2]), t[3]>> >>

EvaluatedKind(k) == last.op = "evaluate" /\ heap[last.arg].kind = k

\* C1: evaluate of a Product returns the product of the values of its two
\* children at the same x.
C1_ProductIsProduct ==
    EvaluatedKind("Product") =>
        last.val = evaluate(heap, heap[last.arg].left, last.x)
                   * evaluate(heap, heap[last.arg].right, last.x)

\* C2: the tree derivative() returns evaluates, at every sample point, to the
\* exact derivative of the polynomial the differentiated tree denotes.
C2_DerivativeIsExact ==
    last.op = "derivative" =>
        \A x \in Xs :
            evaluate(heap, last.res, x) = ExactSlope(Tree(heap, last.arg), x)

DerivedKind(k) == last.op = "derivative" /\ heap[last.arg].kind = k

\* C3: derivative() of a Product(l, r) returns
\* Sum(Product(l, derivative(r)), Product(derivative(l), r)): l and r in the
\* result are the operand nodes of the original Product themselves, and the
\* Sum and the two Products are cells that were free before the call.
C3_ProductRule ==
    [][(last'.op = "derivative" /\ heap[last'.arg].kind = "Product") =>
         LET o  == heap'[last'.arg]
             s  == heap'[last'.res]
             p1 == heap'[s.left]
             p2 == heap'[s.right]
         IN  /\ s.kind = "Sum" /\ p1.kind = "Product" /\ p2.kind = "Product"
             /\ p1.left = o.left
             /\ p2.right = o.right
             /\ Tree(heap', p1.right) = RuleTerm(Tree(heap, o.right))
             /\ Tree(heap', p2.left) = RuleTerm(Tree(heap, o.left))
             /\ {last'.res, s.left, s.right} \subseteq Addr \ Live(Mem)
             /\ Cardinality({last'.res, s.left, s.right}) = 3
             /\ heap'[o.left] = heap[o.left]
             /\ heap'[o.right] = heap[o.right]]_vars

\* a Product whose operands are themselves binary has been differentiated
C3_Witness ==
    /\ DerivedKind("Product")
    /\ IsTwoOp(heap[heap[last.arg].left])
    /\ IsTwoOp(heap[heap[last.arg].right])
    /\ heap[heap[last.res].left].left = heap[last.arg].left

\* C4: no binary node with a null child exists, and evaluate, print and
\* derivative never dereference one.
C4_NoNullChild ==
    /\ \A a \in Addr : IsTwoOp(heap[a]) =>
           heap[a].left # NULL /\ heap[a].right # NULL
    /\ last.op # "ub"
    /\ ~crashed

\* C5: a node is alive exactly as long as somebody owns it: the use count of
\* every cell is the number of shared_ptr objects pointing to it, every node
\* reachable from a caller's pointer is alive, and every alive node is
\* reachable from a caller's pointer.
C5_AliveIffOwned ==
    LET ptrs == Pointers
        reach == Reachable
    IN  /\ \A a \in Addr : rc[a] = Cardinality({i \in DOMAIN ptrs : ptrs[i] = a})
        /\ \A a \in reach : rc[a] > 0 /\ heap[a].kind # "free"
        /\ Live(Mem) = reach

\* the caller has dropped the differentiated Product and holds only the
\* derivative, which still owns the Product's operands
C5_Witness ==
    /\ last.op = "drop"
    /\ Len(ext) = 1
    /\ heap[ext[1]].kind = "Sum"
    /\ heap[heap[ext[1]].left].kind = "Product"
    /\ heap[heap[ext[1]].right].kind = "Product"
    /\ rc[heap[heap[ext[1]].left].left] = 1
    /\ rc[heap[heap[ext[1]].right].right] = 1
    /\ Cardinality({a \in Addr : heap[a].kind = "Product"}) = 2

\* C6: after derivative() on a Product both operands are alive and evaluate
\* and print of each give, through the original Product and through the
\* derivative tree alike, what they gave before the call.
C6_SharedOperandsUsable ==
    [][(last'.op = "derivative" /\ heap[last'.arg].kind = "Product") =>
         LET o   == heap[last'.arg]
             s   == heap'[last'.res]
             vl  == heap'[s.left].left
             vr  == heap'[s.right].right
             ol  == heap'[last'.arg].left
             or  == heap'[last'.arg].right
         IN  /\ rc'[vl] > 0 /\ rc'[vr] > 0 /\ rc'[ol] > 0 /\ rc'[or] > 0
             /\ WellFormed(heap', vl) /\ WellFormed(heap', vr)
             /\ \A x \in Xs :
                  /\ evaluate(heap', vl, x) = evaluate(heap, o.left, x)
                  /\ evaluate(heap', ol, x) = evaluate(heap, o.left, x)
                  /\ evaluate(heap', vr, x) = evaluate(heap, o.right, x)
                  /\ evaluate(heap', or, x) = evaluate(heap, o.right, x)
             /\ print(heap', vl) = print(heap, o.left)
             /\ print(heap', ol) = print(heap, o.left)
             /\ print(heap', vr) = print(heap, o.right)
             /\ print(heap', or) = print(heap, o.right)]_vars

\* both operands of a differentiated Product have two parents
C6_Witness ==
    /\ DerivedKind("Product")
    /\ heap[last.arg].left # heap[last.arg].right
    /\ rc[heap[last.arg].left] = 2
    /\ rc[heap[last.arg].right] = 2
    /\ print(heap, heap[last.arg].left) # print(heap, heap[last.arg].right)

\* C7: evaluate, print and derivative leave the kind, the constant and the
\* children of every node that existed before the call as they were.
C7_ReadOnly ==
    [][last'.op \in {"evaluate", "print", "derivative"} =>
         \A a \in Live(Mem) : heap'[a] = heap[a]]_vars

\* a derivative has been taken of a tree with a constant other than 0 in it
C7_Witness ==
    /\ last.op = "derivative"
    /\ \E a \in Desc(heap, last.arg) : heap[a].kind = "Constant" /\ heap[a].c # 0

\* C9: evaluate of a Sum returns the sum of the values of its two children at
\* the same x, for the call just made and for every Sum node of the heap.
C9_SumIsSum ==
    /\ EvaluatedKind("Sum") =>
         last.val = evaluate(heap, heap[last.arg].left, last.x)
                    + evaluate(heap, heap[last.arg].right, last.x)
    /\ \A a \in Live(Mem), x \in Xs :
         (heap[a].kind = "Sum" /\ WellFormed(heap, a)) =>
             evaluate(heap, a, x) = evaluate(heap, heap[a].left, x)
                                    + evaluate(heap, heap[a].right, x)

\* a Sum with a binary child has been evaluated
C9_Witness ==
    /\ EvaluatedKind("Sum")
    /\ IsTwoOp(heap[heap[last.arg].left])
    /\ last.val > 1

\* C10: evaluate of a Constant returns its constant whatever x is, and
\* evaluate of a Variable returns x.
C10_Leaves ==
    /\ EvaluatedKind("Constant") => last.val = heap[last.arg].c
    /\ EvaluatedKind("Variable") => last.val = last.x
    /\ \A a \in Live(Mem), x \in Xs :
         /\ heap[a].kind = "Constant" => evaluate(heap, a, x) = heap[a].c
         /\ heap[a].kind = "Variable" => evaluate(heap, a, x) = x

\* a Constant has been evaluated at an x other than its constant
C10_Witness ==
    /\ EvaluatedKind("Constant")
    /\ last.x # heap[last.arg].c

\* C8: calls of evaluate, print and derivative that several threads make on
\* one tree at the same time never meet a destroyed node, leave every node of
\* the tree as it was, return what the same call returns when it runs alone,
\* and once every derivative taken has been let go of, every use count is
\* what it was before the calls.
C8_ConcurrentReaders ==
    /\ ~crashed
    /\ \A a \in Live(snap) : heap[a] = snap.heap[a] /\ rc[a] >= snap.rc[a]
    /\ \A t \in DOMAIN thr :
         LET th == thr[t]
             alone == derivative([snap EXCEPT !.arena = DOMAIN snap.heap], Root)
         IN  /\ (th.op = "evaluate" /\ th.phase = "done") =>
                    th.ret = evaluate(snap.heap, Root, th.x)
             /\ (th.op = "print" /\ th.phase = "done") =>
                    th.out = print(snap.heap, Root)
             /\ (th.op = "derivative" /\ th.phase = "held") =>
                    /\ WellFormed(heap, th.ret)
                    /\ Tree(heap, th.ret) = Tree(alone.m.heap, alone.p)
                    /\ Desc(heap, th.ret) \cap Live(snap)
                         = Desc(alone.m.heap, alone.p) \cap Live(snap)
    /\ (\A t \in DOMAIN thr : thr[t].op = "derivative" => thr[t].phase = "done")
         => rc = snap.rc /\ heap = snap.heap

\* two threads are inside derivative() of the same Product at once, each
\* having taken its share in the left operand
C8_Witness ==
    /\ thr # <<>>
    /\ heap[Root].kind = "Product"
    /\ \A t \in {1, 2} :
         /\ thr[t].op = "derivative"
         /\ thr[t].phase = "run"
         /\ Len(thr[t].stack) = 1
         /\ Top(thr[t]).pc = 2
    /\ rc[heap[Root].left] = snap.rc[heap[Root].left] + 2

\* C11: derivative() of a Sum(l, r) returns a Sum in a cell that was free
\* before the call, whose left child is what derivative() of l returns and
\* whose right child is what derivative() of r returns; both children are new
\* nodes too.
C11_SumRule ==
    [][(last'.op = "derivative" /\ heap[last'.arg].kind = "Sum") =>
         LET o  == heap[last'.arg]
             s  == heap'[last'.res]
             dl == derivative(Mem, o.left)
             dr == derivative(Mem, o.right)
         IN  /\ s.kind = "Sum"
             /\ Tree(heap', s.left) = Tree(dl.m.heap, dl.p)
             /\ Tree(heap', s.right) = Tree(dr.m.heap, dr.p)
             /\ {last'.res, s.left, s.right} \subseteq Addr \ Live(Mem)
             /\ Cardinality({last'.res, s.left, s.right}) = 3
             /\ heap'[last'.arg] = heap[last'.arg]]_vars

\* a Sum whose two children have different derivatives has been differentiated
C11_Witness ==
    /\ DerivedKind("Sum")
    /\ Tree(heap, heap[last.res].left) # Tree(heap, heap[last.res].right)
    /\ IsTwoOp(heap[heap[last.arg].right])

\* C12: derivative() of a Constant returns a Constant 0 and derivative() of a
\* Variable returns a Constant 1, each in a cell that was free before the call.
C12_LeafRules ==
    [][last'.op = "derivative" =>
         LET o == heap[last'.arg]
             d == heap'[last'.res]
             Const(c) == [kind |-> "Constant", c |-> c, left |-> NULL, right |-> NULL]
         IN  /\ o.kind = "Constant" => d = Const(0)
             /\ o.kind = "Variable" => d = Const(1)
             /\ ~IsTwoOp(o) => /\ last'.res \in Addr \ Live(Mem)
                               /\ heap'[last'.arg] = o
                               /\ rc'[last'.res] = 1]_vars

\* the derivative of a Constant other than 0 and 1 has been taken
C12_Witness ==
    /\ DerivedKind("Constant")
    /\ heap[last.arg].c = 5
    /\ heap[last.res].c = 0
    /\ last.res # last.arg

\* the text print writes for a binary node with these children
Parenthesized(l, opch, r) == <<"(">> \o l \o <<opch>> \o r \o <<")">>

PrintedKind(k) == last.op = "print" /\ heap[last.arg].kind = k

\* 4 * (5+x), the expression main() builds
MainTerm ==
    <<"Product", <<"Constant", 4>>, <<"Sum", <<"Constant", 5>>, <<"Variable">> >> >>

\* C13: for every binary node, at every depth, print writes '(' , the printed
\* left child, '+' for a Sum and '*' for a Product, the printed right child
\* and ')'; the tree of main() prints as (4*(5+x)).
C13_PrintForm ==
    /\ PrintedKind("Sum") =>
         last.out = Parenthesized(print(heap, heap[last.arg].left), "+",
                                  print(heap, heap[last.arg].right))
    /\ PrintedKind("Product") =>
         last.out = Parenthesized(print(heap, heap[last.arg].left), "*",
                                  print(heap, heap[last.arg].right))
    /\ \A a \in Live(Mem) :
         /\ heap[a].kind = "Sum" =>
              print(heap, a) = Parenthesized(print(heap, heap[a].left), "+",
                                             print(heap, heap[a].right))
         /\ heap[a].kind = "Product" =>
              print(heap, a) = Parenthesized(print(heap, heap[a].left), "*",
                                             print(heap, heap[a].right))
    /\ (last.op = "print" /\ Tree(heap, last.arg) = MainTerm) =>
         last.out = <<"(", "4", "*", "(", "5", "+", "x", ")", ")">>

\* the tree of main() has been printed
C13_Witness ==
    /\ last.op = "print"
    /\ Tree(heap, last.arg) = MainTerm
    /\ Len(last.out) = 9

\* the text print writes for the expression t when it is built on its own
PrintedForm(t) ==
    LET b == BuildTerm([heap  |-> [a \in Addr |-> FreeCell],
                        rc    |-> [a \in Addr |-> 0],
                        arena |-> Addr], t)
    IN  print(b.m.heap, b.p)

IsDigit(ch) == \E d \in 0..9 : Digit(d) = ch

DigitValue(ch) == CHOOSE d \in 0..9 : Digit(d) = ch

Unreadable == [t |-> <<"unreadable">>, next |-> 0]

RECURSIVE ReadNumber(_, _, _)
\* the numeral of s that goes on at position i, acc being its value so far
ReadNumber(s, i, acc) ==
    IF i <= Len(s) /\ IsDigit(s[i])
    THEN ReadNumber(s, i + 1, 10 * acc + DigitValue(s[i]))
    ELSE [t |-> <<"Constant", acc>>, next |-> i]

RECURSIVE ReadTerm(_, _)
\* the expression written in s from position i on and the position after it,
\* read without any precedence rule
ReadTerm(s, i) ==
    IF i < 1 \/ i > Len(s) THEN Unreadable
    ELSE IF s[i] = "x" THEN [t |-> <<"Variable">>, next |-> i + 1]
    ELSE IF IsDigit(s[i]) THEN ReadNumber(s, i, 0)
    ELSE IF s[i] # "(" THEN Unreadable
    ELSE LET l == ReadTerm(s, i + 1)
         IN  IF l.next < 1 \/ l.next > Len(s) \/ s[l.next] \notin {"+", "*"}
             THEN Unreadable
             ELSE LET r == ReadTerm(s, l.next + 1)
                  IN  IF r.next < 1 \/ r.next > Len(s) \/ s[r.next] # ")"
                      THEN Unreadable
                      ELSE [t |-> <<IF s[l.next] = "+" THEN "Sum" ELSE "Product",
                                    l.t, r.t>>,
                            next |-> r.next + 1]

\* the expression a whole text denotes
Read(s) ==
    LET r == ReadTerm(s, 1)
    IN  IF r.next = Len(s) + 1 THEN r.t ELSE <<"unreadable">>

\* C14: the printed form is unambiguous: no other expression of up to MaxTerm
\* nodes prints to the text a print call wrote, and reading that text back with
\* no precedence rule gives the expression of the printed tree.
C14_Unambiguous ==
    last.op = "print" =>
        /\ \A t \in TermsUpTo(MaxTerm) :
             PrintedForm(t) = last.out => t = Tree(heap, last.arg)
        /\ Read(last.out) = Tree(heap, last.arg)

\* a Product with a Product on its left has been printed: without the
\* parentheses it would read like the one with the Product on its right
C14_Witness ==
    /\ PrintedKind("Product")
    /\ heap[heap[last.arg].left].kind = "Product"
    /\ ~IsTwoOp(heap[heap[last.arg].right])
    /\ Read(last.out) = Tree(heap, last.arg)

\* C15: evaluate, print and derivative calls leave the text of every tree as
\* it was, and a print call writes the text of its tree: two print calls on
\* one tree write the same text whatever calls are made between them.
C15_PrintDeterministic ==
    [][last'.op \in {"evaluate", "print", "derivative"} =>
         /\ \A a \in Live(Mem) : /\ WellFormed(heap', a)
                                 /\ print(heap', a) = print(heap, a)
         /\ last'.op = "print" => last'.out = print(heap, last'.arg)
         /\ (last'.op = "print" /\ last.op = "print" /\ last'.arg = last.arg) =>
                last'.out = last.out]_vars

\* a tree has been printed after its derivative was taken
C15_Witness ==
    /\ PrintedKind("Product")
    /\ Len(ext) = 2
    /\ last.arg = ext[1]
    /\ rc[heap[last.arg].left] = 2
    /\ heap[ext[2]].kind = "Sum"

Const(c) == <<"Constant", c>>

\* C16: the tree derivative() returns has exactly the shape the four rules
\* give when applied recursively, node for node, nothing folded or removed:
\* Sum(x, 5) gives Sum(1, 0) and 4 * (5+x) gives (4 * (0+1)) + (0 * (5+x)).
C16_NotSimplified ==
    last.op = "derivative" =>
        LET t == Tree(heap, last.arg)
            d == Tree(heap, last.res)
        IN  /\ d = RuleTerm(t)
            /\ Cardinality(Desc(heap, last.res) \ Desc(heap, last.arg))
                 = NewNodes(heap, last.arg)
            /\ t = <<"Sum", <<"Variable">>, Const(5)>> =>
                 d = <<"Sum", Const(1), Const(0)>>
            /\ t = MainTerm =>
                 d = <<"Sum",
                       <<"Product", Const(4), <<"Sum", Const(0), Const(1)>> >>,
                       <<"Product", Const(0), <<"Sum", Const(5), <<"Variable">> >> >> >>

\* the derivative of the tree of main() has been taken
C16_Witness ==
    /\ last.op = "derivative"
    /\ Tree(heap, last.arg) = MainTerm
    /\ Cardinality(Desc(heap, last.res)) = 11

\* C17: derivative() of a well-formed tree returns, with no error, a tree
\* whose nodes are alive Constants, Variables, Sums and Products, the binary
\* ones with two non-null children and the leaves with none.
C17_Closed ==
    /\ ~crashed
    /\ last.op # "ub"
    /\ last.op = "derivative" =>
         /\ last.res # NULL
         /\ WellFormed(heap, last.res)
         /\ \A a \in Desc(heap, last.res) :
              /\ rc[a] > 0
              /\ heap[a].kind \in {"Constant", "Variable", "Sum", "Product"}
              /\ IsTwoOp(heap[a]) => heap[a].left # NULL /\ heap[a].right # NULL
              /\ ~IsTwoOp(heap[a]) => heap[a].left = NULL /\ heap[a].right = NULL

\* the derivative of a derivative has been taken: the differentiated Sum has
\* constants that only derivative() creates
C17_Witness ==
    /\ DerivedKind("Sum")
    /\ heap[heap[last.arg].left].kind = "Constant"
    /\ heap[heap[last.arg].left].c = 1
    /\ heap[heap[last.arg].right].kind = "Constant"
    /\ heap[heap[last.arg].right].c = 0
    /\ heap[last.res].kind = "Sum"

\* every unique_ptr object of the memory u: the caller's and the members of
\* the nodes that exist
UniquePointers(u) ==
    u.hs \o [b \in Addr |-> u.heap[b].left] \o [b \in Addr |-> u.heap[b].right]

\* every node that exists is held by exactly one unique_ptr, and no
\* unique_ptr holds a deleted node
OneOwner(u) ==
    LET ptrs == UniquePointers(u)
    IN  /\ \A a \in Addr :
             u.heap[a].kind # "free" =>
                 Cardinality({i \in DOMAIN ptrs : ptrs[i] = a}) = 1
        /\ \A i \in DOMAIN ptrs :
             ptrs[i] # NULL => u.heap[ptrs[i]].kind # "free"

\* C18: in the unique_ptr tree every node has exactly one owner after every
\* call; no constructor call destroys a node; and destroying the pointer to a
\* root destroys every node of its tree exactly once, a parent before its
\* children, leaves none of them behind and touches no other node.
C18_ExclusiveOwnership ==
    [][/\ OneOwner(uq')
       /\ uq'.last.op # "drop" => uq'.order = <<>>
       /\ uq'.last.op = "drop" =>
            LET nodes == Desc(uq.heap, uq'.last.arg)
                order == uq'.order
            IN  /\ {order[i] : i \in DOMAIN order} = nodes
                /\ Len(order) = Cardinality(nodes)
                /\ order[1] = uq'.last.arg
                /\ \A i \in DOMAIN order, j \in DOMAIN order :
                     order[j] \in {uq.heap[order[i]].left, uq.heap[order[i]].right}
                         => i < j
                /\ \A a \in Addr :
                     uq'.heap[a] = IF a \in nodes THEN FreeCell ELSE uq.heap[a]]_vars

\* the tree of main() has been destroyed while the caller holds nothing else
C18_Witness ==
    /\ uq.last.op = "drop"
    /\ Len(uq.order) = MaxTerm
    /\ uq.hs = <<>>
    /\ \A a \in Addr : uq.heap[a].kind = "free"

\* C19: the two implementations cannot be told apart by evaluate and print:
\* after the same constructor calls the caller's pointers lead to the same
\* expressions, evaluate returns the same number at every sample point and
\* print writes the same text, for the calls made and for every tree held.
C19_SameResults ==
    /\ Len(uq.hs) = Len(ext)
    /\ \A i \in 1..Len(ext) :
         /\ Tree(uq.heap, uq.hs[i]) = Tree(heap, ext[i])
         /\ \A x \in Xs :
              unique_evaluate(uq.heap, uq.hs[i], x) = evaluate(heap, ext[i], x)
         /\ unique_print(uq.heap, uq.hs[i]) = print(heap, ext[i])
    /\ uq.last.op = last.op
    /\ last.op = "evaluate" => uq.last.x = last.x /\ uq.last.val = last.val
    /\ last.op = "print" => uq.last.out = last.out

\* the tree of main() has been evaluated at 10 by both implementations
C19_Witness ==
    /\ last.op = "evaluate"
    /\ uq.last.op = "evaluate"
    /\ Tree(heap, last.arg) = MainTerm
    /\ Tree(uq.heap, uq.last.arg) = MainTerm
    /\ last.x = 10
    /\ uq.last.val = last.val

RECURSIVE Within(_, _, _)
\* the nodes met on the paths of at most n edges that start at p
Within(h, p, n) ==
    IF p = NULL THEN {}
    ELSE IF n = 0 THEN {p}
    ELSE {p} \cup Within(h, h[p].left, n - 1) \cup Within(h, h[p].right, n - 1)

\* node a is not met again on a path that starts at one of its children
OffOwnPaths(h, a) ==
    a \notin Within(h, h[a].left, Cardinality(DOMAIN h))
             \cup Within(h, h[a].right, Cardinality(DOMAIN h))

\* no node is reachable from itself
Acyclic(h) == \A a \in DOMAIN h : OffOwnPaths(h, a)

\* C20: whatever constructor, derivative and drop calls are made, the nodes and
\* their left/right edges form a finite graph without a cycle.  A step can
\* close a cycle only through a cell it writes, so the graph, empty at first,
\* stays acyclic when no written cell is reachable from itself after the step.
C20_Acyclic ==
    [][\A a \in Addr : heap'[a] # heap[a] => OffOwnPaths(heap', a)]_vars

\* a derivative shares a binary subtree with the tree it was taken of
C20_Witness ==
    /\ last.op = "derivative"
    /\ \E a \in Addr : IsTwoOp(heap[a]) /\ rc[a] = 2
    /\ Acyclic(heap)


\* ---- one caller, deep and shared trees --------------------------------------
\* The caller holds a left-nested chain of Sums, ((((x+4)+4)+4)+4), or a binary
\* node whose two operands are one and the same chain, and makes one call on
\* it, a step at a time, with an explicit stack of activation records.
MaxDepth == 4

\* cells one derivative() call on such a tree can need
DeepArena == 4 * MaxDepth + 1

DeepAddr == 1..(2 * MaxDepth + 1 + NThreads * DeepArena)

RECURSIVE BuildChain(_, _)
\* std::make_shared<Sum>(chain of depth d - 1, std::make_shared<Constant>(4))
BuildChain(m, d) ==
    IF d = 0 THEN make_shared_Variable(m)
    ELSE LET l == BuildChain(m, d - 1)
             r == make_shared_Constant(l.m, 4)
         IN  make_shared_TwoOp(r.m, "Sum", l.p, r.p)

\* auto s = chain; std::make_shared<kind>(s, s): both operands share s
BuildShared(m, kind, d) ==
    LET s  == BuildChain(m, d)
        t  == make_shared_TwoOp(CopyPtr(CopyPtr(s.m, s.p), s.p), kind, s.p, s.p)
    IN  [m |-> Release(t.m, s.p), p |-> t.p]

InitDeep ==
    \E d \in 1..MaxDepth, shape \in {"chain", "Sum", "Product"} :
        LET m0 == [heap  |-> [a \in DeepAddr |-> FreeCell],
                   rc    |-> [a \in DeepAddr |-> 0],
                   arena |-> 1..(2 * MaxDepth + 1)]
            b  == IF shape = "chain" THEN BuildChain(m0, d)
                  ELSE BuildShared(m0, shape, d - 1)
        IN  /\ heap = b.m.heap
            /\ rc = b.m.rc
            /\ ext = <<b.p>>
            /\ snap = b.m
            /\ uq = NoUnique
            /\ vec = NoVector
            /\ bank = NoBank
            /\ atom = NoAtomic
            /\ last = NoCall
            /\ crashed = FALSE
            /\ thr = [i \in Threads |-> Idle]

\* the thread of main()
Main == 1

StepMain ==
    \/ StepEvaluate(Main)
    \/ StepPrint(Main)
    \/ StepDerivative(Main)
    \/ StartDrop(Main)
    \/ StepDrop(Main)

NextDeep ==
    \/ \E x \in Xs : CallEvaluate(Main, x)
    \/ CallPrint(Main)
    \/ CallDerivative(Main)
    \/ StepEvaluate(Main)
    \/ StepPrint(Main)
    \/ StepDerivative(Main)
    \/ StartDrop(Main)
    \/ StepDrop(Main)

\* a thread that is inside a call goes on executing it
SpecDeepLive == InitDeep /\ [][NextDeep]_vars /\ WF_vars(StepMain)

\* the call of the main thread has returned
Returned(op) ==
    /\ thr[Main].op = op
    /\ thr[Main].phase = IF op = "derivative" THEN "held" ELSE "done"

\* what the recursive methods give for the tree the caller holds
AgreesWithRecursion ==
    LET th == thr[Main]
        d  == derivative([snap EXCEPT !.arena = DOMAIN snap.heap], Root)
    IN  /\ ~crashed
        /\ Returned("evaluate") => th.ret = evaluate(snap.heap, Root, th.x)
        /\ Returned("print") => th.out = print(snap.heap, Root)
        /\ Returned("derivative") =>
               /\ WellFormed(heap, th.ret)
               /\ Tree(heap, th.ret) = Tree(d.m.heap, d.p)

MaxCapacity == 4

Elems == {1, 2}

\* the set of objects the tree variables hold while another lesson runs
NoTree ==
    /\ heap = <<>>
    /\ rc = <<>>
    /\ ext = <<>>
    /\ last = NoCall
    /\ crashed = FALSE
    /\ thr = <<>>
    /\ snap = [heap |-> <<>>, rc |-> <<>>, arena |-> {}]
    /\ uq = NoUnique

min(a, b) == IF b < a THEN b ELSE a

\* Vector(size_t initialsize = 0)
Vector_ctor(initialsize) ==
    [size |-> initialsize, capacity |-> initialsize * 2,
     data |-> [i \in 1..initialsize |-> 0], overrun |-> FALSE, halted |-> FALSE]

\* void reserve(size_t newcapacity): the elements are moved one by one
Vector_reserve(v, newcapacity) ==
    IF v.capacity = newcapacity \/ newcapacity < v.size THEN v
    ELSE [v EXCEPT !.data = [i \in 1..v.size |-> v.data[i]],
                   !.capacity = newcapacity]

\* new (&data[size]) T(std::move(obj)); size++ -- the outcomes
Vector_construct(v, obj) ==
    IF v.size < v.capacity
    THEN {[v EXCEPT !.data = Append(@, obj), !.size = @ + 1]}
    ELSE {[v EXCEPT !.data = Append(@, obj), !.size = @ + 1, !.overrun = TRUE],
          [v EXCEPT !.overrun = TRUE, !.halted = TRUE]}

\* void push_back(T obj)
Vector_push_back(v, obj) ==
    Vector_construct(IF v.size = v.capacity
                     THEN Vector_reserve(v, min(v.size * 2, 1))
                     ELSE v, obj)

\* void shrink_to_fit()
Vector_shrink_to_fit(v) ==
    IF v.capacity > v.size THEN Vector_reserve(v, v.size) ELSE v

InitVector ==
    /\ NoTree
    /\ bank = NoBank
    /\ atom = NoAtomic
    /\ \E initialsize \in 0..(MaxCapacity \div 2) : vec = Vector_ctor(initialsize)

TreeVars == <<heap, rc, ext, last, crashed, thr, snap, uq>>

push_back(obj) ==
    /\ ~vec.halted
    /\ vec.size <= MaxCapacity
    /\ vec' \in Vector_push_back(vec, obj)
    /\ UNCHANGED <<TreeVars, bank, atom>>

reserve(newcapacity) ==
    /\ ~vec.halted
    /\ vec' = Vector_reserve(vec, newcapacity)
    /\ UNCHANGED <<TreeVars, bank, atom>>

shrink_to_fit ==
    /\ ~vec.halted
    /\ vec' = Vector_shrink_to_fit(vec)
    /\ UNCHANGED <<TreeVars, bank, atom>>

NextVector ==
    \/ \E obj \in Elems : push_back(obj)
    \/ \E newcapacity \in 0..MaxCapacity : reserve(newcapacity)
    \/ shrink_to_fit

SpecVector == InitVector /\ [][NextVector]_vars

\* C22: after the constructor and after every push_back, reserve and
\* shrink_to_fit, size <= capacity, and no element was ever constructed at an
\* index >= capacity.
C22_SizeWithinCapacity ==
    /\ vec.size <= vec.capacity
    /\ ~vec.overrun

\* ---- block-1b-classes.md: BankAccount used by several threads ----------------
\* bank.m is the thread that holds the mutex (0: nobody), bank.th[t] the call
\* thread t is in: its position pc, its argument and the values it has read.
\* A step is one access to balance or to the mutex.  deposited and returned
\* add up what the calls that have returned paid in and handed out.
MaxCalls == 4

Amounts == {1, 2}

NoBankCall == [pc |-> "idle", op |-> "none", amount |-> 0, seen |-> 0,
               tmp |-> 0, ret |-> 0]

\* std::lock_guard constructed without locking the mutex
lock_guard_ctor_nolock(b, t) == {b}

\* std::lock_guard<std::mutex> lg(m): blocks while another thread holds m
lock_guard_ctor(b, t) ==
    IF b.m = 0 THEN {[b EXCEPT !.m = t]} ELSE {}

\* ~lock_guard(): m.unlock()
lock_guard_dtor(b, t) == [b EXCEPT !.m = 0]

\* a withdraw that does not look at the balance
Sufficient_always(amount, balance) == TRUE

\* if (amount <= balance)
Sufficient(amount, balance) == amount <= balance

InitBank ==
    /\ NoTree
    /\ vec = NoVector
    /\ atom = NoAtomic
    /\ bank = [NoBank EXCEPT !.th = [t \in Threads |-> NoBankCall]]

\* a thread calls deposit(amount) or withdraw(amount)
BankCall(t, op, amount) ==
    /\ bank.th[t].pc = "idle"
    /\ bank.calls < MaxCalls
    /\ bank' = [bank EXCEPT !.calls = @ + 1,
                            !.th[t] = [NoBankCall EXCEPT !.pc = "lock", !.op = op,
                                                         !.amount = amount]]
    /\ UNCHANGED <<TreeVars, vec, atom>>

deposit(t, amount) == BankCall(t, "deposit", amount)

withdraw(t, amount) == BankCall(t, "withdraw", amount)

\* the first statement of both methods
BankLock(t) ==
    /\ bank.th[t].pc = "lock"
    /\ \E b \in lock_guard_ctor(bank, t) :
          bank' = [b EXCEPT !.th[t].pc = IF b.th[t].op = "deposit" THEN "load"
                                         ELSE "test"]
    /\ UNCHANGED <<TreeVars, vec, atom>>

\* withdraw: if (amount <= balance) ... else return 0
BankTest(t) ==
    /\ bank.th[t].pc = "test"
    /\ bank' = IF Sufficient(bank.th[t].amount, bank.balance)
               THEN [bank EXCEPT !.th[t].seen = bank.balance, !.th[t].pc = "load"]
               ELSE [bank EXCEPT !.th[t].seen = bank.balance, !.th[t].ret = 0,
                                 !.th[t].pc = "unlock"]
    /\ UNCHANGED <<TreeVars, vec, atom>>

\* the read of balance in balance = balance + amount, balance - amount
BankLoad(t) ==
    /\ bank.th[t].pc = "load"
    /\ bank' = [bank EXCEPT !.th[t].tmp = bank.balance, !.th[t].pc = "store"]
    /\ UNCHANGED <<TreeVars, vec, atom>>

\* the write of balance; withdraw goes on to return amount
BankStore(t) ==
    /\ bank.th[t].pc = "store"
    /\ LET c == bank.th[t]
       IN  bank' = IF c.op = "deposit"
                   THEN [bank EXCEPT !.balance = c.tmp + c.amount,
                                     !.th[t].pc = "unlock"]
                   ELSE [bank EXCEPT !.balance = c.tmp - c.amount,
                                     !.th[t].ret = c.amount,
                                     !.th[t].pc = "unlock"]
    /\ UNCHANGED <<TreeVars, vec, atom>>

\* the method returns: lg is destroyed
BankReturn(t) ==
    /\ bank.th[t].pc = "unlock"
    /\ LET c == bank.th[t]
           b == lock_guard_dtor(bank, t)
       IN  bank' = [b EXCEPT !.th[t].pc = "idle",
                             !.deposited = IF c.op = "deposit" THEN @ + c.amount
                                           ELSE @,
                             !.returned = IF c.op = "withdraw" THEN @ + c.ret
                                          ELSE @]
    /\ UNCHANGED <<TreeVars, vec, atom>>

NextBank ==
    \/ \E t \in Threads, amount \in Amounts : deposit(t, amount)
    \/ \E t \in Threads, amount \in Amounts : withdraw(t, amount)
    \/ \E t \in Threads : BankLock(t)
    \/ \E t \in Threads : BankTest(t)
    \/ \E t \in Threads : BankLoad(t)
    \/ \E t \in Threads : BankStore(t)
    \/ \E t \in Threads : BankReturn(t)

SpecBank == InitBank /\ [][NextBank]_vars

\* thread t is between the construction and the destruction of its lock_guard
Guarded(t) == bank.th[t].pc \in {"test", "load", "store", "unlock"}

BankQuiet == \A t \in Threads : bank.th[t].pc = "idle"

\* C23: with several threads calling deposit and withdraw in every
\* interleaving, a thread is inside a method body only while it holds the
\* mutex, so no two are; a thread that has returned does not hold the mutex;
\* and whenever nobody holds the mutex the balance is the sum of the amounts
\* deposited minus the sum of the amounts withdraw returned.
C23_BankSafe ==
    /\ \A t \in Threads : Guarded(t) <=> bank.m = t
    /\ bank.m = 0 => bank.balance = bank.deposited - bank.returned
    /\ BankQuiet => bank.m = 0

\* all calls made, by two threads, money paid in and handed out
C23_Witness ==
    /\ BankQuiet
    /\ bank.calls = MaxCalls
    /\ bank.th[1].op = "withdraw" /\ bank.th[1].ret > 0
    /\ bank.th[2].op = "deposit"
    /\ bank.balance = bank.deposited - bank.returned
    /\ bank.balance > 0

\* C24: a withdraw(amount) that found amount <= balance returns amount and
\* leaves the balance lower by amount, any other returns 0 and leaves the
\* balance as it was; the balance is never negative.
C24_Withdraw ==
    /\ bank.balance >= 0
    /\ \A t \in Threads :
         LET c == bank.th[t]
         IN  (c.op = "withdraw" /\ c.pc = "unlock") =>
                 IF c.amount <= c.seen
                 THEN c.ret = c.amount /\ bank.balance = c.seen - c.amount
                 ELSE c.ret = 0 /\ bank.balance = c.seen

\* withdraw(2) from a balance of 1 is about to return 0
C24_Witness ==
    \E t \in Threads :
        /\ bank.th[t].op = "withdraw"
        /\ bank.th[t].pc = "unlock"
        /\ bank.th[t].amount = 2
        /\ bank.th[t].seen = 1
        /\ bank.th[t].ret = 0
        /\ bank.balance = 1

\* ---- block-1b-classes.md: bogus_function on one std::atomic<int> -------------
\* Every thread calls the function once on the same variable.  form tells
\* which of the lesson's bodies runs: "hibas", i.store(i.load()*2 + 1), which
\* is also what i = i*2 + 1 does, or "bogus_function", i *= 2; i += 1.  Each
\* operation on the atomic is one step.  overlap records that a call began
\* while another was between its two operations.
Starts == 0..5

NoBogusCall == [pc |-> "call", tmp |-> 0]

\* i.load()
atomic_load(a) == a.i

\* a store that computes from the value i has when it is written
hibas_store_rmw(a, loaded) == [a EXCEPT !.i = a.i * 2 + 1]

\* i.store(loaded*2 + 1)
hibas_store(a, loaded) == [a EXCEPT !.i = loaded * 2 + 1]

\* i *= 2
atomic_times(a, k) == [a EXCEPT !.i = @ * k]

\* i += 1
atomic_plus(a, k) == [a EXCEPT !.i = @ + k]

InitAtomic ==
    /\ NoTree
    /\ vec = NoVector
    /\ bank = NoBank
    /\ \E i0 \in Starts, form \in {"hibas", "bogus_function"} :
          atom = [i |-> i0, th |-> [t \in Threads |-> NoBogusCall],
                  form |-> form, start |-> i0, overlap |-> FALSE]

\* thread t does the first operation of its call
Begun(a, t) ==
    [a EXCEPT !.th[t].pc = "mid",
              !.overlap = @ \/ \E u \in Threads \ {t} : a.th[u].pc = "mid"]

BogusLoad(t) ==
    /\ atom.form = "hibas"
    /\ atom.th[t].pc = "call"
    /\ atom' = Begun([atom EXCEPT !.th[t].tmp = atomic_load(atom)], t)
    /\ UNCHANGED <<TreeVars, vec, bank>>

BogusStore(t) ==
    /\ atom.form = "hibas"
    /\ atom.th[t].pc = "mid"
    /\ atom' = [hibas_store(atom, atom.th[t].tmp) EXCEPT !.th[t].pc = "done"]
    /\ UNCHANGED <<TreeVars, vec, bank>>

BogusTimes(t) ==
    /\ atom.form = "bogus_function"
    /\ atom.th[t].pc = "call"
    /\ atom' = Begun(atomic_times(atom, 2), t)
    /\ UNCHANGED <<TreeVars, vec, bank>>

BogusPlus(t) ==
    /\ atom.form = "bogus_function"
    /\ atom.th[t].pc = "mid"
    /\ atom' = [atomic_plus(atom, 1) EXCEPT !.th[t].pc = "done"]
    /\ UNCHANGED <<TreeVars, vec, bank>>

NextAtomic ==
    \/ \E t \in Threads : BogusLoad(t)
    \/ \E t \in Threads : BogusStore(t)
    \/ \E t \in Threads : BogusTimes(t)
    \/ \E t \in Threads : BogusPlus(t)

SpecAtomic == InitAtomic /\ [][NextAtomic]_vars

RECURSIVE Sequential(_, _)
\* the value after n calls made one after the other
Sequential(i0, n) == IF n = 0 THEN i0 ELSE Sequential(i0, n - 1) * 2 + 1

BogusDone == \A t \in Threads : atom.th[t].pc = "done"

\* C25: when every thread has made its call, the variable has the value the
\* calls give one after the other (in any order: they are the same call)
\* exactly if no call began between the two operations of another; every
\* interleaving in which two calls overlap ends with a different value.
C25_NotAtomic ==
    BogusDone => (atom.i = Sequential(atom.start, NThreads) <=> ~atom.overlap)

\* two overlapping calls of i.store(i.load()*2 + 1) from 0 have ended
C25_Witness ==
    /\ BogusDone
    /\ atom.form = "hibas"
    /\ atom.start = 0
    /\ atom.overlap
    /\ atom.i # Sequential(0, NThreads)
    /\ atom.th[1].tmp = atom.th[2].tmp

\* ---- block-2b.md: Sum and Product before calc() and op() ---------------------
\* Sum::evaluate: left->evaluate(x) + right->evaluate(x)
Sum_evaluate(l, r) == l + r

\* Sum::print: '(' left '+' right ')'
Sum_print(l, r) == <<"(">> \o l \o <<"+">> \o r \o <<")">>

\* Product::evaluate: left->evaluate(x) * right->evaluate(x)
Product_evaluate(l, r) == l * r

\* Product::print: left '*' right
Product_print(l, r) == l \o <<"*">> \o r

RECURSIVE earlier_evaluate(_, _, _)
\* p->evaluate(x) with the classes that implement evaluate themselves
earlier_evaluate(h, p, x) ==
    CASE h[p].kind = "Constant" -> Constant_evaluate(h[p], x)
      [] h[p].kind = "Variable" -> Variable_evaluate(h[p], x)
      [] h[p].kind = "Sum" ->
            Sum_evaluate(earlier_evaluate(h, h[p].left, x),
                         earlier_evaluate(h, h[p].right, x))
      [] OTHER ->
            Product_evaluate(earlier_evaluate(h, h[p].left, x),
                             earlier_evaluate(h, h[p].right, x))

RECURSIVE earlier_print(_, _)
\* p->print(os) with the classes that implement print themselves
earlier_print(h, p) ==
    CASE h[p].kind = "Constant" -> Constant_print(h[p])
      [] h[p].kind = "Variable" -> Variable_print(h[p])
      [] h[p].kind = "Sum" ->
            Sum_print(earlier_print(h, h[p].left), earlier_print(h, h[p].right))
      [] OTHER ->
            Product_print(earlier_print(h, h[p].left), earlier_print(h, h[p].right))

\* C26: every evaluate call returns what the tree gives with the earlier Sum
\* and Product classes, and every print call writes the text they write.
C26_SameAsEarlier ==
    /\ last.op = "evaluate" => last.val = earlier_evaluate(heap, last.arg, last.x)
    /\ last.op = "print" => last.out = earlier_print(heap, last.arg)

RECURSIVE Destroyed(_, _)
\* the nodes deleted while the pointers ps are destroyed, in order: a node is
\* deleted by the destructor of a pointer that is not one of several owners
Destroyed(m, ps) ==
    IF ps = <<>> THEN <<>>
    ELSE LET p == Head(ps)
             r == Release1(m, p)
         IN  (IF p # NULL /\ m.rc[p] <= 1 THEN <<p>> ELSE <<>>)
             \o Destroyed(r.m, r.kids \o Tail(ps))

\* C27: whenever a caller drops a pointer to a tree built by constructor and
\* derivative calls, the nodes deleted are alive nodes, each deleted once, and
\* they are exactly the nodes that are gone afterwards; when the pointer was
\* the last one a caller held, no node is left.
C27_NoLeak ==
    [][last'.op = "drop" =>
         \E i \in 1..Len(ext) :
            LET gone == Destroyed(Mem, <<ext[i]>>)
            IN  /\ \A j, k \in DOMAIN gone : gone[j] = gone[k] => j = k
                /\ \A j \in DOMAIN gone :
                      /\ rc[gone[j]] > 0
                      /\ rc'[gone[j]] = 0
                      /\ heap'[gone[j]] = FreeCell
                /\ {gone[j] : j \in DOMAIN gone} = Live(Mem) \ Live(Mem')
                /\ ext' = <<>> => \A a \in Addr : rc'[a] = 0 /\ heap'[a] = FreeCell]_vars

\* the caller has dropped its last pointer
C27_Witness ==
    /\ last.op = "drop"
    /\ ext = <<>>
    /\ Live(Mem) = {}

\* ---- one caller, one call at a time, any small tree --------------------------
\* The caller holds the root of any expression of at most MaxTerm nodes and
\* makes one call on it step by step; a derivative is let go of afterwards.
InitOne ==
    \E t \in TermsUpTo(MaxTerm) :
        LET b == BuildTerm([heap  |-> [a \in DeepAddr |-> FreeCell],
                            rc    |-> [a \in DeepAddr |-> 0],
                            arena |-> 1..(2 * MaxDepth + 1)], t)
        IN  /\ heap = b.m.heap
            /\ rc = b.m.rc
            /\ ext = <<b.p>>
            /\ snap = b.m
            /\ uq = NoUnique
            /\ vec = NoVector
            /\ bank = NoBank
            /\ atom = NoAtomic
            /\ last = NoCall
            /\ crashed = FALSE
            /\ thr = [i \in Threads |-> Idle]

SpecOne == InitOne /\ [][NextDeep]_vars

\* C28: while a derivative of e is computed, held and dropped, e still held,
\* no node of e changes or loses an owner; when the derivative has been
\* dropped the nodes and the use counts are those before the call: the nodes
\* the call created, and only they, are gone.
C28_DerivativeThenDrop ==
    LET th == thr[Main]
    IN  th.op = "derivative" =>
          /\ ~crashed
          /\ \A a \in Live(snap) : heap[a] = snap.heap[a] /\ rc[a] >= snap.rc[a]
          /\ th.phase = "held" =>
                /\ \A a \in Live(snap) : a \notin Arena(Main)
                /\ Live(Mem) \ Live(snap) # {}
                /\ Live(Mem) \ Live(snap) \subseteq Arena(Main)
          /\ th.phase = "done" => heap = snap.heap /\ rc = snap.rc

\* the derivative of a Product of a Product has been dropped
C28_Witness ==
    /\ thr[Main].op = "derivative"
    /\ thr[Main].phase = "done"
    /\ heap[Root].kind = "Product"
    /\ heap[heap[Root].left].kind = "Product"
    /\ rc = snap.rc

\* ---- calls on a tree with a large constant -----------------------------------
\* constants a caller passes to Constant(double), one of them printed with an
\* exponent
PrintConsts == {5, 1000000}

RECURSIVE TermsOver(_, _)
\* the expressions of at most n nodes with leaves from L
TermsOver(L, n) ==
    IF n < 1 THEN {}
    ELSE L \cup
         {t \in {<<k, l, r>> : k \in {"Sum", "Product"},
                               l \in TermsOver(L, n - 2), r \in TermsOver(L, n - 2)} :
            TermSize(t) <= n}

InitPrint ==
    \E t \in TermsOver({<<"Constant", c>> : c \in PrintConsts} \cup {<<"Variable">>},
                       MaxTerm) :
        LET b == BuildTerm([heap  |-> [a \in Addr |-> FreeCell],
                            rc    |-> [a \in Addr |-> 0],
                            arena |-> Addr], t)
        IN  /\ heap = b.m.heap
            /\ rc = b.m.rc
            /\ ext = <<b.p>>
            /\ last = NoCall
            /\ crashed = FALSE
            /\ thr = <<>>
            /\ snap = [heap |-> <<>>, rc |-> <<>>, arena |-> {}]
            /\ uq = NoUnique
            /\ vec = NoVector
            /\ bank = NoBank
            /\ atom = NoAtomic

SpecPrint == InitPrint /\ [][NextTree]_vars

\* number of times ch is written in s
Count(s, ch) == Cardinality({i \in DOMAIN s : s[i] = ch})

\* every prefix of s has at least as many '(' as ')'
Balanced(s) ==
    \A n \in 0..Len(s) : Count(SubSeq(s, 1, n), "(") >= Count(SubSeq(s, 1, n), ")")

RECURSIVE BinaryNodes(_, _)
\* the binary nodes of the tree under p, a shared subtree counted every time
BinaryNodes(h, p) ==
    IF IsTwoOp(h[p]) THEN 1 + BinaryNodes(h, h[p].left) + BinaryNodes(h, h[p].right)
    ELSE 0

RECURSIVE ExponentConstants(_, _)
\* the constants of the tree under p written with an exponent, counted likewise
ExponentConstants(h, p) ==
    IF IsTwoOp(h[p])
    THEN ExponentConstants(h, h[p].left) + ExponentConstants(h, h[p].right)
    ELSE IF h[p].kind = "Constant" /\ h[p].c >= 1000000 THEN 1 ELSE 0

Operators(s) == Count(s, "+") + Count(s, "*")

\* the texts written for the node a: by the last print call if it was on a,
\* by TwoOp::print of either implementation
Texts(a) ==
    {print(heap, a), unique_print(heap, a)}
    \cup (IF last.op = "print" /\ last.arg = a THEN {last.out} ELSE {})

Printable == {a \in Live(Mem) : WellFormed(heap, a)}

\* the text of every tree has as many operator characters as binary nodes
C29_AsStated ==
    \A a \in Printable : \A s \in Texts(a) :
        /\ Balanced(s)
        /\ Count(s, "(") = BinaryNodes(heap, a)
        /\ Count(s, ")") = BinaryNodes(heap, a)
        /\ Operators(s) = BinaryNodes(heap, a)

\* C29: in the text of every tree every prefix has at least as many '(' as
\* ')', and the numbers of '(' and of ')' are the number of binary nodes,
\* shared subtrees counted per occurrence; the number of '+' and '*' is the
\* number of binary nodes plus the number of constants of 10^6 and more, which
\* are written with an exponent, as 1e+06.
C29_Balanced ==
    \A a \in Printable : \A s \in Texts(a) :
        /\ Balanced(s)
        /\ Count(s, "(") = BinaryNodes(heap, a)
        /\ Count(s, ")") = BinaryNodes(heap, a)
        /\ Operators(s) = BinaryNodes(heap, a) + ExponentConstants(heap, a)

\* the derivative of a Product with a large constant has been printed: its
\* tree shares the operands of the Product
C29_Witness ==
    /\ last.op = "print"
    /\ heap[last.arg].kind = "Sum"
    /\ \E a \in Live(Mem) : rc[a] > 1 /\ heap[a].kind = "Constant" /\ heap[a].c = 1000000
    /\ ExponentConstants(heap, last.arg) > 0
    /\ BinaryNodes(heap, last.arg) >= 3
====
